---- MODULE Spec2Model ----
(***************************************************************************)
(* Noteable: a key=value store kept in a flat ".noteable" text file.       *)
(* Text is modelled as a sequence of one-character strings, so that        *)
(* split, join, startsWith, includes and parseInt are computed character   *)
(* by character as the JavaScript does.                                    *)
(***************************************************************************)
EXTENDS Integers, Sequences, FiniteSets, TLC

(* ------------------------------ bounds --------------------------------- *)

\* every text over FileAlphabet up to this length is a file the first
\* construction may find (SampleFiles adds longer ones)
MaxFileLen == 1

\* set() is not called once the in-memory sequence holds this many lines
MaxLines == 3

(* ------------------------------ inputs --------------------------------- *)

NL == "\n"
EQ == "="
HASH == "#"

\* characters of the files that exist before the first construction
FileAlphabet == {"a", EQ, HASH, NL}

\* longer files the first construction may find:
\*   a=    aa    #a    #=    (one line)
\*   a=|   |a=   |aa   a=|a=   a=|#a   aa|==   (| is a newline)
\*   a==   #==   (two '=' in a line)
SampleFiles ==
  {<<"a", EQ>>, <<"a", "a">>, <<HASH, "a">>, <<HASH, EQ>>,
   <<"a", EQ, NL>>, <<NL, "a", EQ>>, <<NL, "a", "a">>,
   <<"a", EQ, NL, "a", EQ>>, <<"a", EQ, NL, HASH, "a">>, <<"a", "a", NL, EQ, EQ>>,
   <<"a", EQ, EQ>>, <<HASH, EQ, EQ>>}

\* keys handed to get/set/change/remove/has: "a" and "2"
Keys == {<<"a">>, <<"2">>}

\* values handed to set/change: "2" and "="
Values == {<<"2">>, <<EQ>>}

\* the two instances a program holds (the second is used by SpecTwo only)
Instances == {1, 2}

\* the settings handed to the constructor; a filePath of "" stands for a
\* missing one, a flag of "undefined" for a missing flag
Setting(fp, ap, te) == [filePath |-> fp, autoParse |-> ap, throwError |-> te]
SettingsInputs ==
  {Setting("", "undefined", "undefined"),
   Setting("DEFAULT", "false", "true"),
   Setting("./note.noteable", "true", "true"),
   Setting("./note.noteable", "false", "false")}

\* settings whose file path lacks the extension
OtherSettingsInputs == {Setting("note.txt", "undefined", "undefined")}

\* the files of the disk
Paths == {"./note.noteable", "note.txt"}

(* --------------------------- JavaScript values ------------------------- *)

Undefined == [t |-> "undefined", s |-> <<>>, n |-> 0]
JStr(s) == [t |-> "string", s |-> s, n |-> 0]
JNum(n) == [t |-> "number", s |-> <<>>, n |-> n]
JBool(b) == [t |-> "boolean", s |-> <<>>, n |-> IF b THEN 1 ELSE 0]

\* what an operation did: returned a value, or threw an Error
Returned(v) == [kind |-> "return", val |-> v]
Threw(name, str, num) == [kind |-> "throw", val |-> [t |-> name, s |-> str, n |-> num]]

\* JavaScript truthiness of a value (!value is its negation)
Truthy(v) ==
  \/ v.t = "string" /\ v.s # <<>>
  \/ v.t = "number" /\ v.n # 0
  \/ v.t = "boolean" /\ v.n = 1

(* --------------------------- string functions -------------------------- *)

\* index of the first occurrence of character c in s, 0 when there is none
IndexOf(s, c) ==
  IF \E i \in 1..Len(s) : s[i] = c
  THEN CHOOSE i \in 1..Len(s) : s[i] = c /\ \A j \in 1..(i - 1) : s[j] # c
  ELSE 0

\* String.prototype.split with a one-character separator
RECURSIVE Split(_, _)
Split(s, c) ==
  LET i == IndexOf(s, c) IN
  IF i = 0 THEN <<s>>
  ELSE <<SubSeq(s, 1, i - 1)>> \o Split(SubSeq(s, i + 1, Len(s)), c)

\* Array.prototype.join with a one-character separator
RECURSIVE Join(_, _)
Join(arr, c) ==
  IF arr = <<>> THEN <<>>
  ELSE IF Len(arr) = 1 THEN arr[1]
  ELSE arr[1] \o <<c>> \o Join(Tail(arr), c)

StartsWith(s, c) == Len(s) >= 1 /\ s[1] = c
Includes(s, c) == IndexOf(s, c) # 0

\* note.split('=')[k] for k = 0, 1 as a JavaScript value
SplitAt(note, k) ==
  LET parts == Split(note, EQ) IN
  IF k + 1 <= Len(parts) THEN JStr(parts[k + 1]) ELSE Undefined

\* Array.prototype.findIndex, given the outcome of the callback for each
\* element: 0-based, -1 when the callback holds for no element
FindIndex(tests) ==
  IF \E i \in 1..Len(tests) : tests[i]
  THEN (CHOOSE i \in 1..Len(tests) : tests[i] /\ \A j \in 1..(i - 1) : ~tests[j]) - 1
  ELSE -1

\* Array.prototype.find, given the outcome of the callback for each element:
\* the first element the callback holds for, or undefined
Find(arr, tests) ==
  LET i == FindIndex(tests) IN
  IF i = -1 THEN Undefined ELSE JStr(arr[i + 1])

Digits == {"0", "1", "2", "3", "4", "5", "6", "7", "8", "9"}
DigitVal(c) ==
  CASE c = "0" -> 0 [] c = "1" -> 1 [] c = "2" -> 2 [] c = "3" -> 3 [] c = "4" -> 4
    [] c = "5" -> 5 [] c = "6" -> 6 [] c = "7" -> 7 [] c = "8" -> 8 [] c = "9" -> 9

\* the value of a string of decimal digits
RECURSIVE DecimalValue(_)
DecimalValue(s) ==
  IF s = <<>> THEN 0
  ELSE DecimalValue(SubSeq(s, 1, Len(s) - 1)) * 10 + DigitVal(s[Len(s)])

\* the longest prefix of s made of decimal digits
RECURSIVE DigitPrefix(_)
DigitPrefix(s) ==
  IF s # <<>> /\ s[1] \in Digits THEN <<s[1]>> \o DigitPrefix(Tail(s)) ELSE <<>>

\* parseInt of a JavaScript value: NaN for undefined and for text that does
\* not begin with a digit (the modelled texts hold no sign and no blank)
ParseInt(v) ==
  IF v.t = "string" /\ DigitPrefix(v.s) # <<>>
  THEN [nan |-> FALSE, n |-> DecimalValue(DigitPrefix(v.s))]
  ELSE [nan |-> TRUE, n |-> 0]

\* the auto-parse package: text made of digits becomes a number, "true" and
\* "false" become booleans, undefined stays undefined, other text is kept
AutoParse(v) ==
  IF v.t # "string" THEN v
  ELSE IF v.s # <<>> /\ DigitPrefix(v.s) = v.s THEN JNum(DecimalValue(v.s))
  ELSE IF v.s = <<"t", "r", "u", "e">> THEN JBool(TRUE)
  ELSE IF v.s = <<"f", "a", "l", "s", "e">> THEN JBool(FALSE)
  ELSE v

(* ------------------------------- state --------------------------------- *)

VARIABLES
  disk,   \* disk[p]: whether file p exists, and its text
  store,  \* store[i]: the fields of instance i (live = it was constructed)
  last    \* the latest call: operation, instance, arguments and outcome

vars == <<disk, store, last>>

NoFile == [exists |-> FALSE, text |-> <<>>]
File(text) == [exists |-> TRUE, text |-> text]

NoStore ==
  [live |-> FALSE, filePath |-> "", notes |-> <<>>, autoParse |-> FALSE,
   throwError |-> FALSE, noteArray |-> <<>>]

Call(op, i, path, key, value, out) ==
  [op |-> op, inst |-> i, path |-> path, key |-> key, value |-> value, out |-> out]

\* every text over FileAlphabet of length at most n
RECURSIVE Texts(_)
Texts(n) ==
  IF n = 0 THEN {<<>>}
  ELSE LET shorter == Texts(n - 1) IN
       shorter \cup {Append(t, c) : t \in {u \in shorter : Len(u) = n - 1}, c \in FileAlphabet}

Init ==
  /\ \E f \in {NoFile} \cup {File(t) : t \in Texts(MaxFileLen) \cup SampleFiles} :
       disk = [p \in Paths |-> IF p = "./note.noteable" THEN f ELSE NoFile]
  /\ store = [i \in Instances |-> NoStore]
  /\ last = Call("none", 0, "", <<>>, <<>>, Returned(Undefined))

(* ------------------------- methods of Noteable ------------------------- *)

\* the `??` operator applied to a flag of the settings
Coalesce(flag, default) == IF flag = "undefined" THEN default ELSE flag = "true"

\* String.prototype.toLowerCase on the modelled file paths
ToLowerCase(fp) == IF fp = "DEFAULT" THEN "default" ELSE fp

\* settings.filePath after the first statement of the constructor
ResolveFilePath(fp) ==
  IF fp = "" \/ ToLowerCase(fp) = "default" THEN "./note.noteable" ELSE fp

\* filePath.endsWith('.noteable') on the modelled file paths
EndsWithNoteable(fp) == fp \in {"./note.noteable", "note.noteable"}

\* the test of check() for one line
LineInvalid(line) ==
  \/ ~StartsWith(line, HASH) /\ ~Includes(line, EQ) /\ ~(Len(line) <= 1)
  \/ Len(Split(line, EQ)) > 2

\* the lines check() writes back
LongerThanOne(line) == Len(line) > 1

\* check() with the 0-based index of findIndex in its message
CheckZeroBased(st, text) ==
  LET error == FindIndex([n \in 1..Len(st.noteArray) |-> LineInvalid(st.noteArray[n])]) IN
  IF error # -1
  THEN [out |-> Threw("Line is not valid", <<>>, error), text |-> text]
  ELSE [out |-> Returned(Undefined),
        text |-> Join(SelectSeq(st.noteArray, LongerThanOne), NL)]

\* check(): the outcome and the text of the file afterwards
Check(st, text) ==
  LET error == FindIndex([n \in 1..Len(st.noteArray) |-> LineInvalid(st.noteArray[n])]) IN
  IF error # -1
  THEN [out |-> Threw("Line is not valid", <<>>, error + 1), text |-> text]
  ELSE [out |-> Returned(Undefined),
        text |-> Join(SelectSeq(st.noteArray, LongerThanOne), NL)]

\* the callback of find() in keyCheck, get and has
KeyFound(st, key) ==
  Find(st.noteArray, [n \in 1..Len(st.noteArray) |-> SplitAt(st.noteArray[n], 0) = JStr(key)])

\* keyCheck(key): throws, or returns to its caller (which then goes on)
KeyCheck(st, key) ==
  IF ~Truthy(KeyFound(st, key))
  THEN IF st.throwError THEN Threw("Key doesn't exist", key, 0) ELSE Returned(Undefined)
  ELSE Returned(Undefined)

\* has(key)
Has(st, key) == IF Truthy(KeyFound(st, key)) THEN TRUE ELSE FALSE

\* get(key) without the parseInt test on the found line
GetWithoutParseInt(st, key) ==
  LET value == KeyFound(st, key)
      second == IF value.t = "string" THEN SplitAt(value.s, 1) ELSE Undefined
  IN
  IF KeyCheck(st, key).kind = "throw" THEN KeyCheck(st, key)
  ELSE IF ~Truthy(value) /\ st.throwError THEN Threw("No note found for key", key, 0)
  ELSE IF ~Truthy(value) THEN Returned(Undefined)
  ELSE Returned(IF st.autoParse THEN AutoParse(second) ELSE second)

\* get(key)
Get(st, key) ==
  LET value == KeyFound(st, key)
      parsed == ParseInt(KeyFound(st, key))
      second == IF value.t = "string" THEN SplitAt(value.s, 1) ELSE Undefined
  IN
  IF KeyCheck(st, key).kind = "throw" THEN KeyCheck(st, key)
  ELSE IF ~Truthy(value) /\ st.throwError THEN Threw("No note found for key", key, 0)
  ELSE IF ~Truthy(value) THEN Returned(Undefined)
  ELSE IF ~parsed.nan /\ parsed.n > 1
       THEN IF st.throwError THEN Threw("Key has duplicate value", key, 0)
            ELSE Returned(Undefined)
  ELSE Returned(IF st.autoParse THEN AutoParse(second) ELSE second)

\* getAll(): one single-entry mapping per element of noteArray
GetAll(st) ==
  [i \in 1..Len(st.noteArray) |->
     LET second == SplitAt(st.noteArray[i], 1) IN
     [key |-> SplitAt(st.noteArray[i], 0).s,
      value |-> IF st.autoParse THEN AutoParse(second) ELSE second]]

(* ------------------------------ actions -------------------------------- *)

\* new Noteable(settings), kept as instance i when the constructor returns;
\* when it throws the caller has no new instance
Construct(i, settings) ==
  LET filePath == ResolveFilePath(settings.filePath)
      created == IF ~disk[filePath].exists THEN [disk EXCEPT ![filePath] = File(<<>>)]
                 ELSE disk
      notes == created[filePath].text
      st == [live |-> TRUE, filePath |-> filePath, notes |-> notes,
             autoParse |-> Coalesce(settings.autoParse, TRUE),
             throwError |-> Coalesce(settings.throwError, FALSE),
             noteArray |-> Split(notes, NL)]
      checked == Check(st, notes)
  IN
  IF ~EndsWithNoteable(filePath)
  THEN /\ disk' = created
       /\ store' = store
       /\ last' = Call("construct", i, filePath, <<>>, <<>>,
                       Threw("File path is not a .noteable file", <<>>, 0))
  ELSE /\ disk' = [created EXCEPT ![filePath] = File(checked.text)]
       /\ store' = IF checked.out.kind = "throw" THEN store ELSE [store EXCEPT ![i] = st]
       /\ last' = Call("construct", i, filePath, <<>>, <<>>, checked.out)

\* set(key, value) that writes the file from a copy of noteArray and leaves
\* noteArray as it was
SetWithoutPush(i, key, value) ==
  LET st == store[i]
      data == Append(st.noteArray, key \o <<EQ>> \o value)
  IN
  /\ st.live
  /\ Len(st.noteArray) < MaxLines
  /\ IF Has(st, key)
     THEN /\ UNCHANGED <<disk, store>>
          /\ last' = Call("set", i, "", key, value,
                          IF st.throwError THEN Threw("Key already exists", key, 0)
                          ELSE Returned(Undefined))
     ELSE /\ UNCHANGED store
          /\ disk' = [disk EXCEPT ![st.filePath] = File(Join(data, NL))]
          /\ last' = Call("set", i, "", key, value, Returned(Undefined))

\* set(key, value) that goes on to append when the key exists and throwError
\* is false
SetWithoutReturn(i, key, value) ==
  LET st == store[i]
      data == Append(st.noteArray, key \o <<EQ>> \o value)
  IN
  /\ st.live
  /\ Len(st.noteArray) < MaxLines
  /\ IF Has(st, key) /\ st.throwError
     THEN /\ UNCHANGED <<disk, store>>
          /\ last' = Call("set", i, "", key, value, Threw("Key already exists", key, 0))
     ELSE /\ store' = [store EXCEPT ![i].noteArray = data]
          /\ disk' = [disk EXCEPT ![st.filePath] = File(Join(data, NL))]
          /\ last' = Call("set", i, "", key, value, Returned(Undefined))

\* set(key, value) that appends the new line to the file as it is on disk
\* instead of rewriting the file from noteArray
SetAppendsToFile(i, key, value) ==
  LET st == store[i]
      data == Append(st.noteArray, key \o <<EQ>> \o value)
  IN
  /\ st.live
  /\ Len(st.noteArray) < MaxLines
  /\ IF Has(st, key)
     THEN /\ UNCHANGED <<disk, store>>
          /\ last' = Call("set", i, "", key, value,
                          IF st.throwError THEN Threw("Key already exists", key, 0)
                          ELSE Returned(Undefined))
     ELSE /\ store' = [store EXCEPT ![i].noteArray = data]
          /\ disk' = [disk EXCEPT ![st.filePath] =
                        File(disk[st.filePath].text \o <<NL>> \o key \o <<EQ>> \o value)]
          /\ last' = Call("set", i, "", key, value, Returned(Undefined))

\* instance i: set(key, value)
Set(i, key, value) ==
  LET st == store[i]
      data == Append(st.noteArray, key \o <<EQ>> \o value)
  IN
  /\ st.live
  /\ Len(st.noteArray) < MaxLines
  /\ IF Has(st, key)
     THEN /\ UNCHANGED <<disk, store>>
          /\ last' = Call("set", i, "", key, value,
                          IF st.throwError THEN Threw("Key already exists", key, 0)
                          ELSE Returned(Undefined))
     ELSE /\ store' = [store EXCEPT ![i].noteArray = data]
          /\ disk' = [disk EXCEPT ![st.filePath] = File(Join(data, NL))]
          /\ last' = Call("set", i, "", key, value, Returned(Undefined))

\* remove(key) that filters the in-memory sequence instead of the text read
\* by the constructor
RemoveFromNoteArray(i, key) ==
  LET st == store[i]
      data == SelectSeq(st.noteArray, LAMBDA note : SplitAt(note, 0) # JStr(key))
  IN
  /\ st.live
  /\ IF KeyCheck(st, key).kind = "throw"
     THEN /\ UNCHANGED <<disk, store>>
          /\ last' = Call("remove", i, "", key, <<>>, KeyCheck(st, key))
     ELSE /\ disk' = [disk EXCEPT ![st.filePath] = File(Join(data, NL))]
          /\ UNCHANGED store
          /\ last' = Call("remove", i, "", key, <<>>, Returned(Undefined))

\* instance i: remove(key)
Remove(i, key) ==
  LET st == store[i]
      data == SelectSeq(Split(st.notes, NL), LAMBDA note : SplitAt(note, 0) # JStr(key))
  IN
  /\ st.live
  /\ IF KeyCheck(st, key).kind = "throw"
     THEN /\ UNCHANGED <<disk, store>>
          /\ last' = Call("remove", i, "", key, <<>>, KeyCheck(st, key))
     ELSE /\ disk' = [disk EXCEPT ![st.filePath] = File(Join(data, NL))]
          /\ UNCHANGED store
          /\ last' = Call("remove", i, "", key, <<>>, Returned(Undefined))

\* instance i: change(key, value)
Change(i, key, value) ==
  LET st == store[i]
      data == [n \in 1..Len(st.noteArray) |->
                 IF SplitAt(st.noteArray[n], 0) = JStr(key)
                 THEN key \o <<EQ>> \o value ELSE st.noteArray[n]]
  IN
  /\ st.live
  /\ IF KeyCheck(st, key).kind = "throw"
     THEN /\ UNCHANGED <<disk, store>>
          /\ last' = Call("change", i, "", key, value, KeyCheck(st, key))
     ELSE /\ disk' = [disk EXCEPT ![st.filePath] = File(Join(data, NL))]
          /\ UNCHANGED store
          /\ last' = Call("change", i, "", key, value, Returned(Undefined))

\* instance i: removeAll()
RemoveAll(i) ==
  /\ store[i].live
  /\ disk' = [disk EXCEPT ![store[i].filePath] = File(<<>>)]
  /\ UNCHANGED store
  /\ last' = Call("removeAll", i, "", <<>>, <<>>, Returned(Undefined))

\* instance i: get(key), the outcome is kept in last
DoGet(i, key) ==
  /\ store[i].live
  /\ UNCHANGED <<disk, store>>
  /\ last' = Call("get", i, "", key, <<>>, Get(store[i], key))

\* instance i: has(key), the outcome is kept in last
DoHas(i, key) ==
  /\ store[i].live
  /\ UNCHANGED <<disk, store>>
  /\ last' = Call("has", i, "", key, <<>>, Returned(JBool(Has(store[i], key))))

\* the calls a program can make on instance i with the keys of a set
CallsOn(i, keys) ==
  \/ \E key \in keys, value \in Values : Set(i, key, value)
  \/ \E key \in keys : Remove(i, key)
  \/ \E key \in keys, value \in Values : Change(i, key, value)
  \/ RemoveAll(i)
  \/ \E key \in keys : DoGet(i, key)
  \/ \E key \in keys : DoHas(i, key)

\* the calls a program can make on instance i
Calls(i) == CallsOn(i, Keys)

\* a program that holds one instance, on a path with the extension
Next ==
  \/ \E settings \in SettingsInputs : Construct(1, settings)
  \/ Calls(1)

Spec == Init /\ [][Next]_vars

(* ------------------------ notions used by the claims ------------------- *)

\* a key or a value a caller may store: no '=' and no line break in it
PlainText(s) == \A n \in 1..Len(s) : s[n] # EQ /\ s[n] # NL

\* a valid key: plain text that is not empty
ValidKey(key) == key # <<>> /\ PlainText(key)

\* key is in the store: a key=value line of the in-memory sequence holds it
KeyStored(st, key) ==
  \E n \in 1..Len(st.noteArray) :
    Includes(st.noteArray[n], EQ) /\ SplitAt(st.noteArray[n], 0) = JStr(key)

\* what get() is to return for a stored value v
StoredValue(st, v) == IF st.autoParse THEN AutoParse(JStr(v)) ELSE JStr(v)

\* the number of '=' characters of a line
EqCount(line) == Cardinality({n \in 1..Len(line) : line[n] = EQ})

\* a blank line, and an invalid line, as the file format defines them
BlankLine(line) == Len(line) <= 1
InvalidLine(line) ==
  \/ (line = <<>> \/ line[1] # HASH) /\ EqCount(line) = 0 /\ Len(line) > 1
  \/ EqCount(line) >= 2

\* the lines of a text
LinesOf(text) == Split(text, NL)

\* the 1-based position of the first invalid line of a text that has one
FirstInvalid(text) ==
  CHOOSE n \in 1..Len(LinesOf(text)) :
    /\ InvalidLine(LinesOf(text)[n])
    /\ \A m \in 1..(n - 1) : ~InvalidLine(LinesOf(text)[m])

\* the text of the backing file of instance i
FileText(i) == disk[store[i].filePath].text

(* ------------------------------- claims -------------------------------- *)

\* C1: for a valid key k that is not in the store and a value v, set(k, v)
\* followed by get(k) returns v (auto-parsed when autoParse is enabled), also
\* for a key whose text is a number such as "2".
C1_SetThenGet ==
  [][(/\ last'.op = "set"
      /\ ValidKey(last'.key) /\ PlainText(last'.value)
      /\ ~Has(store[last'.inst], last'.key))
     => Get(store'[last'.inst], last'.key)
          = Returned(StoredValue(store'[last'.inst], last'.value))]_vars

\* C2: for a key k in the store, change(k, v2) followed by get(k) returns v2.
C2_ChangeThenGet ==
  [][(/\ last'.op = "change"
      /\ ValidKey(last'.key) /\ PlainText(last'.value)
      /\ KeyStored(store[last'.inst], last'.key))
     => Get(store'[last'.inst], last'.key)
          = Returned(StoredValue(store'[last'.inst], last'.value))]_vars

\* C3: for a key k in the store, after remove(k) has(k) is false, and get(k)
\* returns undefined when throwError is false.
C3_RemoveThenHas ==
  [][(/\ last'.op = "remove"
      /\ KeyStored(store[last'.inst], last'.key))
     => /\ ~Has(store'[last'.inst], last'.key)
        /\ ~store'[last'.inst].throwError
             => Get(store'[last'.inst], last'.key) = Returned(Undefined)]_vars

\* C4: for a valid key k, has(k) is true right after set(k, v) returned or
\* threw, whether set appended a line or refused the key.
C4_HasAfterSet ==
  (last.op = "set" /\ ValidKey(last.key)) => Has(store[last.inst], last.key)

\* C4 witness: set("2", v) appended the line 2=v and returned.
C4_Witness ==
  /\ last.op = "set" /\ last.key = <<"2">> /\ last.out = Returned(Undefined)
  /\ LET arr == store[last.inst].noteArray IN
       arr # <<>> /\ arr[Len(arr)] = last.key \o <<EQ>> \o last.value

\* C5: after removeAll(), constructing a new Store on the same path succeeds
\* and its getAll() has length 0.
C5_RemoveAllThenReload ==
  [][(/\ last.op = "removeAll"
      /\ last'.op = "construct"
      /\ last'.path = store[last.inst].filePath)
     => /\ last'.out = Returned(Undefined)
        /\ Len(GetAll(store'[last'.inst])) = 0]_vars

\* C6: after a successful construction from a file that has blank lines, the
\* in-memory sequence has no line of length <= 1 and getAll() has one entry
\* per non-blank line of the file.
C6_BlankLinesStripped ==
  [][(/\ last'.op = "construct" /\ last'.out = Returned(Undefined)
      /\ disk[last'.path].exists
      /\ \E n \in 1..Len(LinesOf(disk[last'.path].text)) :
           BlankLine(LinesOf(disk[last'.path].text)[n]))
     => LET arr == store'[last'.inst].noteArray
            lines == LinesOf(disk[last'.path].text)
        IN /\ \A n \in 1..Len(arr) : ~BlankLine(arr[n])
           /\ Len(GetAll(store'[last'.inst]))
                = Cardinality({n \in 1..Len(lines) : ~BlankLine(lines[n])})]_vars

\* C7: after construction and after every set, change, remove and removeAll,
\* the text of the backing file is the in-memory sequence joined by newlines.
C7_FileIsMemory ==
  \A i \in Instances : store[i].live => FileText(i) = Join(store[i].noteArray, NL)

\* C8: set(k, v) for a key k that exists throws "already exists" when
\* throwError is true and returns when it is false, and leaves the in-memory
\* sequence and the file as they were.
C8_SetExistingKey ==
  [][(/\ last'.op = "set"
      /\ Has(store[last'.inst], last'.key))
     => /\ last'.out = IF store[last'.inst].throwError
                       THEN Threw("Key already exists", last'.key, 0)
                       ELSE Returned(Undefined)
        /\ store' = store
        /\ disk' = disk]_vars

\* C8 witness: set(k, v) threw for a key that is in the store, and the store
\* still holds one line for k.
C8_Witness ==
  /\ last.op = "set" /\ last.out = Threw("Key already exists", last.key, 0)
  /\ LET arr == store[last.inst].noteArray IN
       Cardinality({n \in 1..Len(arr) : SplitAt(arr[n], 0) = JStr(last.key)}) = 1

\* C9: with throwError false, change(k, v) and remove(k) for a key k that is
\* not in the store raise nothing and leave the in-memory sequence and the
\* file unchanged.
C9_AbsentKeyNoOp ==
  [][(/\ last'.op \in {"change", "remove"}
      /\ ~store[last'.inst].throwError
      /\ ~Has(store[last'.inst], last'.key))
     => /\ last'.out = Returned(Undefined)
        /\ store' = store
        /\ disk' = disk]_vars

\* C10: constructing a Store from a file with an invalid line throws an error
\* that names the 1-based position of the first invalid line, and leaves the
\* file as it was.
C10_InvalidLineReported ==
  [][(/\ last'.op = "construct"
      /\ EndsWithNoteable(last'.path)
      /\ disk[last'.path].exists
      /\ \E n \in 1..Len(LinesOf(disk[last'.path].text)) :
           InvalidLine(LinesOf(disk[last'.path].text)[n]))
     => /\ last'.out = Threw("Line is not valid", <<>>, FirstInvalid(disk[last'.path].text))
        /\ disk' = disk
        /\ store' = store]_vars

\* C10 witness: a construction threw for a file whose second line is the
\* first invalid one, and the file still holds that line.
C10_Witness ==
  /\ last.op = "construct" /\ last.out = Threw("Line is not valid", <<>>, 2)
  /\ disk[last.path].exists
  /\ Len(LinesOf(disk[last.path].text)) >= 2
  /\ InvalidLine(LinesOf(disk[last.path].text)[2])

\* other keys: "1" and "2", whose lines parse to 1 and to 2, and the empty key
MoreKeys == {<<"1">>, <<"2">>, <<>>}

\* a program that uses the other keys, on a file that does not exist, is
\* empty or holds the one line 1=
InitKeys ==
  /\ \E f \in {NoFile, File(<<>>), File(<<"1", EQ>>)} :
       disk = [p \in Paths |-> IF p = "./note.noteable" THEN f ELSE NoFile]
  /\ store = [i \in Instances |-> NoStore]
  /\ last = Call("none", 0, "", <<>>, <<>>, Returned(Undefined))

\* the settings of that program: the defaults, and both flags reversed
FewSettingsInputs ==
  {Setting("", "undefined", "undefined"), Setting("DEFAULT", "false", "true")}

NextKeys ==
  \/ \E settings \in FewSettingsInputs : Construct(1, settings)
  \/ CallsOn(1, MoreKeys)

SpecKeys == InitKeys /\ [][NextKeys]_vars

\* a comment line, and the comment lines of a sequence of lines in their order
CommentLine(line) == line # <<>> /\ line[1] = HASH
Comments(lines) == SelectSeq(lines, CommentLine)

\* C11: a line that begins with '#' is a comment: the load accepts it whatever
\* else it holds, any number of '=' included, and keeps it verbatim and in
\* order in the in-memory sequence and in the rewritten file.  Stated for
\* files whose comment lines are longer than the bare "#".
C11_CommentsKept ==
  [][(/\ last'.op = "construct"
      /\ EndsWithNoteable(last'.path)
      /\ disk[last'.path].exists
      /\ \A n \in 1..Len(LinesOf(disk[last'.path].text)) :
           \/ /\ CommentLine(LinesOf(disk[last'.path].text)[n])
              /\ ~BlankLine(LinesOf(disk[last'.path].text)[n])
           \/ /\ ~CommentLine(LinesOf(disk[last'.path].text)[n])
              /\ ~InvalidLine(LinesOf(disk[last'.path].text)[n]))
     => LET comments == Comments(LinesOf(disk[last'.path].text)) IN
        /\ last'.out = Returned(Undefined)
        /\ Comments(store'[last'.inst].noteArray) = comments
        /\ Comments(LinesOf(disk'[last'.path].text)) = comments]_vars

\* a program that also tries file paths without the extension
NextExt ==
  \/ Next
  \/ \E settings \in OtherSettingsInputs : Construct(1, settings)

SpecExt == Init /\ [][NextExt]_vars

\* C12: constructing a Store on a path that does not end with ".noteable"
\* throws, whatever throwError is, and creates or modifies no file.
C12_ExtensionCheckedFirst ==
  [][(/\ last'.op = "construct"
      /\ ~EndsWithNoteable(last'.path))
     => /\ last'.out.kind = "throw"
        /\ store' = store
        /\ disk' = disk]_vars

\* C13: has(key) is true only when a line of the in-memory sequence that
\* contains '=' has key before its first '='; a comment line or a blank line
\* never makes has(key) true, even when key is the whole text of that line.
C13_HasOnlyKeyValueLines ==
  \A i \in Instances :
    store[i].live =>
      \A key \in Keys \cup {store[i].noteArray[n] : n \in 1..Len(store[i].noteArray)} :
        Has(store[i], key) => KeyStored(store[i], key)

\* text holds the line key=value
HoldsLine(text, key, value) ==
  \E n \in 1..Len(LinesOf(text)) : LinesOf(text)[n] = key \o <<EQ>> \o value

\* C14: once set(k, v) or change(k, v) has succeeded, the file holds the line
\* k=v after every later call until the next change(k, ...), remove(k) or
\* removeAll(); stated for the call that comes next, on another key.
C14_LineKeptByOtherKeys ==
  [][(/\ last.op \in {"set", "change"}
      /\ last.out = Returned(Undefined)
      /\ ValidKey(last.key) /\ PlainText(last.value)
      /\ last.op = "set" => store[last.inst].throwError
      /\ last.op = "change" => KeyStored(store[last.inst], last.key)
      /\ HoldsLine(FileText(last.inst), last.key, last.value)
      /\ last'.op \in {"set", "change", "remove"}
      /\ last'.inst = last.inst
      /\ last'.key # last.key
      /\ ValidKey(last'.key) /\ PlainText(last'.value)
      /\ last'.op \in {"change", "remove"} => KeyStored(store[last.inst], last'.key))
     => HoldsLine(disk'[store[last.inst].filePath].text, last.key, last.value)]_vars

\* the key-prefix of a line: its text before the first '=', the whole line
\* when it holds none
KeyPrefix(line) ==
  IF \E n \in 1..Len(line) : line[n] = EQ
  THEN SubSeq(line, 1, (CHOOSE n \in 1..Len(line) :
                          line[n] = EQ /\ \A m \in 1..(n - 1) : line[m] # EQ) - 1)
  ELSE line

\* the lines of the text read at construction whose key-prefix is not key,
\* joined by newlines
SnapshotWithout(st, key) ==
  Join(SelectSeq(LinesOf(st.notes), LAMBDA line : KeyPrefix(line) # key), NL)

LineOfKey(st, key) ==
  st.noteArray[CHOOSE n \in 1..Len(st.noteArray) :
                 /\ KeyPrefix(st.noteArray[n]) = key
                 /\ \A m \in 1..(n - 1) : KeyPrefix(st.noteArray[m]) # key]

\* the value of a key=value line: its text after the first '='
ValueOfLine(line) == SubSeq(line, Len(KeyPrefix(line)) + 2, Len(line))

\* the number the leading decimal digits of a line spell, 0 when it begins
\* with no digit
LeadingNumber(line) == DecimalValue(DigitPrefix(line))

InitTwo ==
  /\ \E f \in {NoFile, File(<<>>)} :
       disk = [p \in Paths |-> IF p = "./note.noteable" THEN f ELSE NoFile]
  /\ store = [i \in Instances |-> NoStore]
  /\ last = Call("none", 0, "", <<>>, <<>>, Returned(Undefined))

\* each instance is constructed once and then set, changed and removed from
NextTwo ==
  \E i \in Instances :
    \/ \E settings \in FewSettingsInputs : ~store[i].live /\ Construct(i, settings)
    \/ \E key \in Keys, value \in Values : Set(i, key, value)
    \/ \E key \in Keys : Remove(i, key)
    \/ \E key \in Keys, value \in Values : Change(i, key, value)
    \/ RemoveAll(i)

SpecTwo == InitTwo /\ [][NextTwo]_vars

\* no line of the text has the key-prefix key
NoLineOf(text, key) ==
  \A n \in 1..Len(LinesOf(text)) : KeyPrefix(LinesOf(text)[n]) # key

\* C17: two instances A and B on the same file; k1 and k2 differ, were on no
\* line when A and B were constructed and are not in B's memory.  After
\* A.set(k1, v1) wrote its line, B.set(k2, v2) raises nothing and the file
\* holds k2=v2 and no line for k1.
C17_LastWriterWins ==
  [][(/\ last.op = "set" /\ last'.op = "set"
      /\ last'.inst # last.inst
      /\ last'.key # last.key
      /\ store[last.inst].filePath = store[last'.inst].filePath
      /\ \A i \in {last.inst, last'.inst} : \A key \in {last.key, last'.key} :
           NoLineOf(store[i].notes, key)
      /\ \A key \in {last.key, last'.key} : ~Has(store[last'.inst], key)
      /\ HoldsLine(FileText(last.inst), last.key, last.value))
     => /\ last'.out = Returned(Undefined)
        /\ HoldsLine(disk'[store[last'.inst].filePath].text, last'.key, last'.value)
        /\ NoLineOf(disk'[store[last'.inst].filePath].text, last.key)]_vars

\* C17 witness: the latest call is a set by one instance; the other instance
\* holds in memory a line for another key that the file has lost.
C17_Witness ==
  /\ last.op = "set" /\ last.out = Returned(Undefined)
  /\ HoldsLine(FileText(last.inst), last.key, last.value)
  /\ \E i \in Instances \ {last.inst} : \E key \in Keys \ {last.key} :
       /\ store[i].live /\ store[i].filePath = store[last.inst].filePath
       /\ KeyStored(store[i], key)
       /\ NoLineOf(store[i].notes, key) /\ NoLineOf(store[last.inst].notes, key)
       /\ NoLineOf(FileText(last.inst), key)

\* C18: after any set or change, with any key and value (a value that holds
\* '=' included), every line of the file passes the load-time validity rule,
\* so a new Store on the same path can be constructed.
C18_FileReloadable ==
  last.op \in {"set", "change"}
    => \A n \in 1..Len(LinesOf(FileText(last.inst))) :
         ~InvalidLine(LinesOf(FileText(last.inst))[n])

\* two key=value lines of a sequence have the same key-prefix
SharedKeyPrefix(lines) ==
  \E m, n \in 1..Len(lines) :
    /\ m # n
    /\ Includes(lines[m], EQ) /\ Includes(lines[n], EQ)
    /\ KeyPrefix(lines[m]) = KeyPrefix(lines[n])

\* C19: when the loaded file has no two lines with the same key-prefix, then
\* after any set, change, remove and removeAll with keys that hold no '=' the
\* in-memory sequence has no two key=value lines with the same key-prefix.
C19_KeysStayUnique ==
  \A i \in Instances :
    (store[i].live /\ ~SharedKeyPrefix(LinesOf(store[i].notes)))
      => ~SharedKeyPrefix(store[i].noteArray)

====
